---------------------------- MODULE Spec2Model ----------------------------
(***************************************************************************)
(* Model of the text-to-SQL orchestration loop (Text2SQLSystem.query), its *)
(* response sanitizer (clean_llm_response) and its result extraction       *)
(* (get_last_successful_result), src/text2sql_system.py.                    *)
(* Around it: the construction of the system (Text2SQLSystem.__init__),    *)
(* the DatabaseConnector of src/database_connectors.py and one session of  *)
(* the web UI, src/web_ui.py.                                              *)
(*                                                                         *)
(* Texts are sequences of one-character strings, so that substring search, *)
(* splitting, replacing and stripping are computed as Python computes them. *)
(***************************************************************************)
EXTENDS Integers, Sequences, FiniteSets, TLC

(***************************************************************************)
(* Bounds of the model.                                                    *)
(***************************************************************************)
\* Largest max_retry a Text2SQLSystem is constructed with (0..MaxRetryBound).
MaxRetryBound == 2

(***************************************************************************)
(* Python str primitives used by the code.                                 *)
(***************************************************************************)
\* Characters str.strip() and str.split() treat as whitespace.
Whitespace == {" ", "\n", "\t"}

\* sub occurs in s at position i.
MatchAt(sub, s, i) ==
    /\ i >= 1
    /\ i + Len(sub) - 1 <= Len(s)
    /\ \A k \in 1..Len(sub) : s[i + k - 1] = sub[k]

\* str.find: the least position >= 1 at which sub occurs in s, 0 when none.
Find(sub, s) ==
    LET hits == {i \in 1..Len(s) : MatchAt(sub, s, i)}
    IN  IF hits = {} THEN 0 ELSE CHOOSE i \in hits : \A j \in hits : i <= j

\* `sub in s` for a non-empty sub.
Contains(sub, s) == Find(sub, s) # 0

\* str.split(sep): the pieces between the non-overlapping occurrences of sep,
\* found left to right.
RECURSIVE Split(_, _)
Split(s, sep) ==
    LET i == Find(sep, s)
    IN  IF i = 0
        THEN <<s>>
        ELSE <<SubSeq(s, 1, i - 1)>> \o Split(SubSeq(s, i + Len(sep), Len(s)), sep)

\* str.replace(old, '', count): the first count occurrences of old removed
\* (count = -1: all of them).
RECURSIVE Replace(_, _, _)
Replace(s, old, count) ==
    LET i == Find(old, s)
    IN  IF count = 0 \/ i = 0
        THEN s
        ELSE SubSeq(s, 1, i - 1)
                \o Replace(SubSeq(s, i + Len(old), Len(s)), old,
                           IF count < 0 THEN count ELSE count - 1)

\* str.strip(): leading and trailing whitespace removed.
RECURSIVE LStrip(_)
LStrip(s) ==
    IF s # <<>> /\ Head(s) \in Whitespace THEN LStrip(Tail(s)) ELSE s

RECURSIVE RStrip(_)
RStrip(s) ==
    IF s # <<>> /\ s[Len(s)] \in Whitespace
    THEN RStrip(SubSeq(s, 1, Len(s) - 1))
    ELSE s

Strip(s) == RStrip(LStrip(s))

\* The first whitespace-free word of s (s starts with a non-whitespace).
RECURSIVE FirstWord(_)
FirstWord(s) ==
    IF s = <<>> \/ Head(s) \in Whitespace
    THEN <<>>
    ELSE <<Head(s)>> \o FirstWord(Tail(s))

\* str.split() without argument: the maximal whitespace-free words.
RECURSIVE Words(_)
Words(s) ==
    LET t == LStrip(s)
        w == FirstWord(t)
    IN  IF t = <<>>
        THEN <<>>
        ELSE <<w>> \o Words(SubSeq(t, Len(w) + 1, Len(t)))

\* ' '.join(words).
RECURSIVE Join(_)
Join(words) ==
    IF words = <<>> THEN <<>>
    ELSE IF Len(words) = 1 THEN words[1]
    ELSE words[1] \o <<" ">> \o Join(Tail(words))

(***************************************************************************)
(* clean_llm_response                                                      *)
(***************************************************************************)
\* The backquote character (a TLA+ string cannot hold one).
Backquote == "BACKQUOTE"

Fence == <<Backquote, Backquote, Backquote>>
SqlTag == <<"s","q","l">>

completion_markers ==
    << <<"#","#","#"," ","C","o","m","p","l","e","t","e","d",":">>,
       <<"#","#","#"," ","E","n","d">>,
       <<"#"," ","C","o","m","p","l","e","t","e","d">>,
       <<"C","o","m","p","l","e","t","e","d",":">>,
       <<"#","#","#">>,
       <<"#">> >>

\* Variant: the piece before the first fence taken for the block.
ExtractBlockFirstPiece(text) ==
    LET splits == Split(text, Fence)
    IN  IF Len(splits) >= 3
        THEN Strip(Replace(splits[1], SqlTag, -1))
        ELSE Strip(text)

\* Lines 24-29: the content of the first fenced block with every 'sql'
\* removed, or the whole text; stripped.
ExtractBlock(text) ==
    LET splits == Split(text, Fence)
    IN  IF Len(splits) >= 3
        THEN Strip(Replace(splits[2], SqlTag, -1))
        ELSE Strip(text)

\* Line 32: the first remaining 'sql', wherever it is, removed.
RemoveTag(sql_content) == Replace(sql_content, SqlTag, 1)

\* Variant: the text cut at the last occurrence of the marker.
TruncateAtLast(sql_content, marker) ==
    LET pieces == Split(sql_content, marker)
    IN  IF Contains(marker, sql_content)
        THEN Strip(SubSeq(sql_content, 1,
                          Len(sql_content) - Len(pieces[Len(pieces)]) - Len(marker)))
        ELSE sql_content

\* Lines 37-38: one marker of the loop.
TruncateAt(sql_content, marker) ==
    IF Contains(marker, sql_content)
    THEN Strip(Split(sql_content, marker)[1])
    ELSE sql_content

\* Lines 36-38: the markers from the k-th on, tried in the list's order.
RECURSIVE TruncateFrom(_, _)
TruncateFrom(sql_content, k) ==
    IF k > Len(completion_markers)
    THEN sql_content
    ELSE TruncateFrom(TruncateAt(sql_content, completion_markers[k]), k + 1)

\* Variant: the ends trimmed, inner whitespace kept.
StripOnly(sql_content) == Strip(sql_content)

\* Line 41: whitespace runs collapsed to one space, ends trimmed.
CollapseWhitespace(sql_content) == Join(Words(sql_content))

clean_llm_response(text) ==
    CollapseWhitespace(TruncateFrom(RemoveTag(ExtractBlock(text)), 1))


(***************************************************************************)
(* Inputs and capability outcomes of the model.                            *)
(***************************************************************************)
\* The value of an unset result.
None == <<"None">>

\* User questions and the schema text handed to query().
Queries ==
    { <<"t","o","p"," ","5"," ","c","u","s","t","o","m","e","r","s">>,
      <<"t","e","l","l"," ","m","e"," ","a"," ","j","o","k","e">> }

SchemaText == <<"c","u","s","t","o","m","e","r","s","(","i","d",","," ","n","a","m","e",")">>

\* Raw texts the generator and the fixer return (generated_sql).
RawFenced ==
    Fence \o <<"s","q","l","\n","S","E","L","E","C","T"," ","1","\n">> \o Fence

RawPlain == <<"S","E","L","E","C","T"," ","x"," "," ","F","R","O","M"," ","t">>

RawMarked ==
    <<"s","q","l"," ","S","E","L","E","C","T"," ","2"," ","#"," ","C","o","m","p","l","e","t","e","d">>

GenOutputs == {RawFenced, RawPlain}

FixOutputs == {RawPlain, RawMarked}

\* Results the executor returns: a DataFrame is the sequence of its rows.
EmptyDF == <<>>

OneRowDF == <<"row1">>

DataFrames == {EmptyDF, OneRowDF}

\* Messages of the errors the executor raises: a short one, and one longer
\* than the limit the diagnoser is given.
ErrLimit == 500

ErrShort == <<"n","o"," ","s","u","c","h"," ","t","a","b","l","e",":"," ","t">>

ErrLong == [i \in 1..(ErrLimit + 1) |-> IF i <= ErrLimit THEN "e" ELSE "X"]

ErrorMessages == {ErrShort, ErrLong}

\* The message of a failed LLM call.
CapabilityError == <<"c","o","n","n","e","c","t","i","o","n"," ","e","r","r","o","r">>

\* Texts the diagnoser returns (error_fix_reasoning).
Sentinel == <<"N","O","T"," ","A","S","K","I","N","G"," ","F","O","R"," ","S","Q","L">>

DiagFix == <<"f","i","x"," ","c","o","l","u","m","n"," ","x">>

DiagLower == <<"n","o","t"," ","a","s","k","i","n","g"," ","f","o","r"," ","s","q","l">>

DiagEmbedded == <<"S","E","L","E","C","T"," ","\"">> \o Sentinel \o <<"\"",";">>

DiagTexts == {DiagFix, DiagLower, Sentinel, DiagEmbedded}

(***************************************************************************)
(* The objects around query(): what they hold when nothing has been done.  *)
(***************************************************************************)
\* Text2SQLSystem.__init__ has not been called.
NotConstructed ==
    [pc |-> "not_called", api_key |-> None, environ |-> None, key |-> None,
     sql_lm |-> None, reasoning_lm |-> None, fix_lm |-> None, agents |-> FALSE,
     raised |-> None]

\* DatabaseConnector.__init__; a dict is the set of its (key, value) pairs.
FreshConnector == [engine |-> None, connection_info |-> {}, is_connected |-> FALSE]

\* initialize_session_state on a new session.
InitialSessionState ==
    [db_connector |-> None, text2sql_system |-> None, is_connected |-> FALSE,
     chat_history |-> <<>>, schema_info |-> <<>>, connection_info |-> {}]

(***************************************************************************)
(* Text2SQLSystem.query                                                    *)
(***************************************************************************)
VARIABLES
    max_retry,      \* self.max_retry
    query,          \* the user's question
    database_info,  \* the schema text
    pc,             \* where query() stands
    response,       \* the latest agent response
    retry_count,
    sql,            \* the SQL of the current attempt
    df,             \* the latest result
    error_msg,      \* str(e) of the current failure
    return_dict,    \* the trace: response, sql, error_reason, df
    calls,          \* history: every capability call, its arguments and result
    last,           \* what get_last_successful_result returned
    first,          \* history: the trace and the end of an earlier run of query()
    raw_text,       \* a raw text handed to clean_llm_response
    outputs,        \* what clean_llm_response returned for raw_text, then for its own output
    other,          \* the locals of a second invocation of query(), while it waits
    construction,   \* Text2SQLSystem.__init__: its arguments, its position, what it has set
    connector,      \* a DatabaseConnector: engine, connection_info, is_connected
    session_state,  \* st.session_state of one UI session
    handled         \* history: the UI handler that ran last and how it ended

vars ==
    <<max_retry, query, database_info, pc, response, retry_count, sql, df,
      error_msg, return_dict, calls, last, first, raw_text, outputs,
      other, construction, connector, session_state, handled>>

\* The variables no step of one run of query() touches.
outside ==
    <<first, raw_text, outputs, other, construction, connector, session_state,
      handled>>

\* The variables of the system's construction, of the connector and of the UI.
beyond == <<other, construction, connector, session_state, handled>>

\* Lines 157-163 and the system's construction (line 68).
Init ==
    /\ max_retry \in 0..MaxRetryBound
    /\ query \in Queries
    /\ database_info = SchemaText
    /\ pc = "generate"
    /\ response = None
    /\ retry_count = 0
    /\ sql = None
    /\ df = EmptyDF
    /\ error_msg = None
    /\ return_dict = [response |-> <<>>, sql |-> <<>>, error_reason |-> <<>>, df |-> <<>>]
    /\ calls = <<>>
    /\ last = None
    /\ first = <<>>
    /\ raw_text = <<>>
    /\ outputs = <<>>
    /\ other = <<>>
    /\ construction = NotConstructed
    /\ connector = FreshConnector
    /\ session_state = InitialSessionState
    /\ handled = <<>>

\* One capability call in the history.
Call(cap, args, raised, value) ==
    [cap |-> cap, args |-> args, raised |-> raised, value |-> value]

\* Line 177, as line 218 passes it: str(information).
information ==
    <<"{","'","u","s","e","r","_","q","u","e","r","y","'",":"," ","'">>
        \o query
        \o <<"'",","," ","'","r","e","l","e","v","a","n","t","_","c","o","n","t","e","x","t","'",":"," ","'">>
        \o database_info
        \o <<"'","}">>

\* Variant of line 181 that admits two more iterations.
LoopConditionLate == retry_count <= max_retry + 1

\* Line 181.
LoopCondition == retry_count < max_retry

\* Variant of line 201 that never finds the result empty.
IsEmptyNever(d) == FALSE

\* Line 201: df.empty.
IsEmpty(d) == Len(d) = 0

\* Line 202.
EmptyResultMsg ==
    <<"Q","u","e","r","y"," ","r","e","t","u","r","n","e","d"," ","e","m","p","t","y"," ","r","e","s","u","l","t"," ","s","e","t">>

\* Variant of line 206 that leaves the counter alone.
ExitLoopOnSuccessMissing == retry_count

\* Lines 206, 233, 237: retry_count = self.max_retry + 1  # Exit loop.
ExitLoopOnSuccess == max_retry + 1

ExitLoopOnOutOfScope == max_retry + 1

\* Variant of line 237 that leaves the counter alone.
ExitLoopOnReasoningErrorMissing == retry_count

ExitLoopOnReasoningError == max_retry + 1

\* Variant of line 239 that does not count the iteration.
IncrementMissing(count) == count

\* Line 239: retry_count += 1.
Increment(count) == count + 1

\* Variant of line 216 that passes the whole message.
TruncateErrorMissing(msg) == msg

\* Line 216: error_msg[:500].
TruncateError(msg) == SubSeq(msg, 1, IF Len(msg) < ErrLimit THEN Len(msg) ELSE ErrLimit)

\* Variant of line 222 that compares the whole text with the sentinel.
IsOutOfScopeExact(reasoning) == reasoning = Sentinel

\* Line 222: 'NOT ASKING FOR SQL' in error_fix_reasoning.
IsOutOfScope(reasoning) == Contains(Sentinel, reasoning)

\* Line 185: clean_llm_response of each raw text the agents return, computed
\* once.
Cleaned == [raw \in GenOutputs \cup FixOutputs |-> clean_llm_response(raw)]

\* Lines 168-172, 177-178: the generator returns.
SqlAgentReturns(raw) ==
    /\ pc = "generate"
    /\ calls' = Append(calls, Call("sql_agent", <<query, database_info>>, FALSE, raw))
    /\ response' = [generated_sql |-> raw]
    /\ return_dict' = [return_dict EXCEPT !.response = Append(@, [generated_sql |-> raw])]
    /\ retry_count' = 0
    /\ pc' = "loop"
    /\ UNCHANGED <<outside, max_retry, query, database_info, sql, df, error_msg, last>>

\* Variant of lines 173-175 that calls the generator again.
SqlAgentFailsRetried ==
    /\ pc = "generate"
    /\ calls' = Append(calls, Call("sql_agent", <<query, database_info>>, TRUE, CapabilityError))
    /\ pc' = "generate"
    /\ UNCHANGED <<outside, max_retry, query, database_info, response, retry_count, sql,
                   df, error_msg, return_dict, last>>

\* Lines 173-175: the generator fails; query() returns the empty trace.
SqlAgentFails ==
    /\ pc = "generate"
    /\ calls' = Append(calls, Call("sql_agent", <<query, database_info>>, TRUE, CapabilityError))
    /\ pc' = "returned"
    /\ UNCHANGED <<outside, max_retry, query, database_info, response, retry_count, sql,
                   df, error_msg, return_dict, last>>

\* Lines 181-206, 239: an iteration whose execution returns a result. An empty
\* result raises inside the try block and is handled at line 208.
ExecuteReturns(d) ==
    LET s == Cleaned[response.generated_sql]
    IN  /\ pc = "loop"
        /\ LoopCondition
        /\ sql' = s
        /\ calls' = Append(calls, Call("execute_query", <<s>>, FALSE, d))
        /\ df' = d
        /\ return_dict' = [return_dict EXCEPT !.sql = Append(@, s), !.df = Append(@, d)]
        /\ IF IsEmpty(d)
           THEN /\ error_msg' = EmptyResultMsg
                /\ pc' = "diagnose"
                /\ UNCHANGED retry_count
           ELSE /\ retry_count' = Increment(ExitLoopOnSuccess)
                /\ pc' = "loop"
                /\ UNCHANGED error_msg
        /\ UNCHANGED <<outside, max_retry, query, database_info, response, last>>

\* Variant of line 208 whose handler does not catch the executor's error: it
\* leaves query().
ExecuteRaisesUncaught(msg) ==
    LET s == Cleaned[response.generated_sql]
    IN  /\ pc = "loop"
        /\ LoopCondition
        /\ sql' = s
        /\ calls' = Append(calls, Call("execute_query", <<s>>, TRUE, msg))
        /\ return_dict' = [return_dict EXCEPT !.sql = Append(@, s)]
        /\ pc' = "raised"
        /\ UNCHANGED <<outside, max_retry, query, database_info, response, retry_count, df,
                       error_msg, last>>

\* Variant of line 189 that records the SQL after the execution only.
ExecuteRaisesUnrecorded(msg) ==
    LET s == Cleaned[response.generated_sql]
    IN  /\ pc = "loop"
        /\ LoopCondition
        /\ sql' = s
        /\ calls' = Append(calls, Call("execute_query", <<s>>, TRUE, msg))
        /\ error_msg' = msg
        /\ pc' = "diagnose"
        /\ UNCHANGED <<outside, max_retry, query, database_info, response, retry_count, df,
                       return_dict, last>>

\* Lines 181-197, 208-209: an iteration whose execution raises.
ExecuteRaises(msg) ==
    LET s == Cleaned[response.generated_sql]
    IN  /\ pc = "loop"
        /\ LoopCondition
        /\ sql' = s
        /\ calls' = Append(calls, Call("execute_query", <<s>>, TRUE, msg))
        /\ return_dict' = [return_dict EXCEPT !.sql = Append(@, s)]
        /\ error_msg' = msg
        /\ pc' = "diagnose"
        /\ UNCHANGED <<outside, max_retry, query, database_info, response, retry_count, df, last>>

\* Lines 212-224, 231-233, 239: the diagnoser returns.
ReasoningReturns(reasoning) ==
    /\ pc = "diagnose"
    /\ calls' = Append(calls, Call("error_reasoning_agent",
                                   <<TruncateError(error_msg), sql, information>>,
                                   FALSE, reasoning))
    /\ IF ~IsOutOfScope(reasoning)
       THEN /\ return_dict' = [return_dict EXCEPT !.error_reason = Append(@, reasoning)]
            /\ pc' = "fix"
            /\ UNCHANGED retry_count
       ELSE /\ retry_count' = Increment(ExitLoopOnOutOfScope)
            /\ pc' = "loop"
            /\ UNCHANGED return_dict
    /\ UNCHANGED <<outside, max_retry, query, database_info, response, sql, df, error_msg, last>>

\* Lines 235-239: the diagnoser fails.
ReasoningFails ==
    /\ pc = "diagnose"
    /\ calls' = Append(calls, Call("error_reasoning_agent",
                                   <<TruncateError(error_msg), sql, information>>,
                                   TRUE, CapabilityError))
    /\ retry_count' = Increment(ExitLoopOnReasoningError)
    /\ pc' = "loop"
    /\ UNCHANGED <<outside, max_retry, query, database_info, response, sql, df, error_msg,
                   return_dict, last>>

\* Variant of line 229 that replaces the recorded responses by the new one.
FixReturnsOverwrite(raw) ==
    LET reasoning == return_dict.error_reason[Len(return_dict.error_reason)]
    IN  /\ pc = "fix"
        /\ calls' = Append(calls, Call("error_fix_agent", <<reasoning>>, FALSE, raw))
        /\ response' = [generated_sql |-> raw]
        /\ return_dict' = [return_dict EXCEPT !.response = <<[generated_sql |-> raw]>>]
        /\ retry_count' = Increment(retry_count)
        /\ pc' = "loop"
        /\ UNCHANGED <<outside, max_retry, query, database_info, sql, df, error_msg, last>>

\* Lines 226-230, 239: the fixer returns. Its instruction is the diagnosis just
\* recorded.
FixReturns(raw) ==
    LET reasoning == return_dict.error_reason[Len(return_dict.error_reason)]
    IN  /\ pc = "fix"
        /\ calls' = Append(calls, Call("error_fix_agent", <<reasoning>>, FALSE, raw))
        /\ response' = [generated_sql |-> raw]
        /\ return_dict' = [return_dict EXCEPT !.response = Append(@, [generated_sql |-> raw])]
        /\ retry_count' = Increment(retry_count)
        /\ pc' = "loop"
        /\ UNCHANGED <<outside, max_retry, query, database_info, sql, df, error_msg, last>>

\* Lines 235-239: the fixer fails.
FixFails ==
    LET reasoning == return_dict.error_reason[Len(return_dict.error_reason)]
    IN  /\ pc = "fix"
        /\ calls' = Append(calls, Call("error_fix_agent", <<reasoning>>, TRUE, CapabilityError))
        /\ retry_count' = Increment(ExitLoopOnReasoningError)
        /\ pc' = "loop"
        /\ UNCHANGED <<outside, max_retry, query, database_info, response, sql, df, error_msg,
                       return_dict, last>>

\* Lines 181, 241: the loop condition fails; query() returns the trace.
Return ==
    /\ pc = "loop"
    /\ ~LoopCondition
    /\ pc' = "returned"
    /\ UNCHANGED <<outside, max_retry, query, database_info, response, retry_count, sql, df,
                   error_msg, return_dict, calls, last>>

\* Lines 253-255.
get_last_successful_result(result_dict) ==
    IF result_dict.sql # <<>> /\ result_dict.df # <<>>
    THEN <<result_dict.sql[Len(result_dict.sql)], result_dict.df[Len(result_dict.df)]>>
    ELSE <<None, None>>

\* The caller inspects the returned trace.
GetLastSuccessfulResult ==
    /\ pc = "returned"
    /\ last' = get_last_successful_result(return_dict)
    /\ pc' = "inspected"
    /\ UNCHANGED <<outside, max_retry, query, database_info, response, retry_count, sql, df,
                   error_msg, return_dict, calls>>

Next ==
    \/ \E raw \in GenOutputs : SqlAgentReturns(raw)
    \/ SqlAgentFails
    \/ \E d \in DataFrames : ExecuteReturns(d)
    \/ \E msg \in ErrorMessages : ExecuteRaises(msg)
    \/ \E reasoning \in DiagTexts : ReasoningReturns(reasoning)
    \/ ReasoningFails
    \/ \E raw \in FixOutputs : FixReturns(raw)
    \/ FixFails
    \/ Return
    \/ GetLastSuccessfulResult

Spec == Init /\ [][Next]_vars

\* Every capability call returns or fails, and query() then goes on.
FairSpec == Spec /\ WF_vars(Next)

(***************************************************************************)
(* The history of a run, as the properties read it.                        *)
(***************************************************************************)
CallsOf(cap) == {i \in 1..Len(calls) : calls[i].cap = cap}

Executions == CallsOf("execute_query")

Diagnoses == CallsOf("error_reasoning_agent")

Fixes == CallsOf("error_fix_agent")

\* The i-th call is an execution that returned rows.
Succeeded(i) ==
    /\ i \in Executions
    /\ ~calls[i].raised
    /\ Len(calls[i].value) > 0

\* The i-th call is an execution that raised or returned no row.
Failed(i) == i \in Executions /\ ~Succeeded(i)

\* The i-th call is a diagnosis whose text holds the sentinel.
SaidOutOfScope(i) ==
    /\ i \in Diagnoses
    /\ ~calls[i].raised
    /\ Contains(Sentinel, calls[i].value)

Returned == pc \in {"returned", "inspected"}

GenerationSucceeded == calls # <<>> /\ ~calls[1].raised

AllListsEmpty ==
    /\ return_dict.response = <<>>
    /\ return_dict.sql = <<>>
    /\ return_dict.error_reason = <<>>
    /\ return_dict.df = <<>>

\* The first ErrLimit characters of a message, computed by position.
FirstChars(msg) == [k \in 1..(IF Len(msg) > ErrLimit THEN ErrLimit ELSE Len(msg)) |-> msg[k]]

(***************************************************************************)
(* Two runs of query() on one system, one after the other, so that the     *)
(* trace of the first can be compared with the trace of the second.        *)
(***************************************************************************)
\* How the run in progress ended, read from its call history.
Outcome ==
    LET end == calls[Len(calls)]
    IN  IF calls[1].raised THEN "capability_failure"
        ELSE IF Succeeded(Len(calls)) THEN "success"
        ELSE IF SaidOutOfScope(Len(calls)) THEN "out_of_scope"
        ELSE IF end.raised /\ end.cap \in {"error_reasoning_agent", "error_fix_agent"}
             THEN "capability_failure"
        ELSE "budget_exhausted"

\* Lines 157-163 again: the caller keeps the returned trace and calls query()
\* a second time.
QueryAgain ==
    /\ pc = "returned"
    /\ first = <<>>
    /\ first' = <<[trace |-> return_dict, outcome |-> Outcome]>>
    /\ pc' = "generate"
    /\ response' = None
    /\ retry_count' = 0
    /\ sql' = None
    /\ df' = EmptyDF
    /\ error_msg' = None
    /\ return_dict' = [response |-> <<>>, sql |-> <<>>, error_reason |-> <<>>, df |-> <<>>]
    /\ calls' = <<>>
    /\ UNCHANGED <<max_retry, query, database_info, last, raw_text, outputs, beyond>>

\* The steps of the two runs, with one text of each kind as capability result.
PairNext ==
    \/ SqlAgentReturns(RawPlain)
    \/ SqlAgentFails
    \/ \E d \in DataFrames : ExecuteReturns(d)
    \/ ExecuteRaises(ErrShort)
    \/ \E reasoning \in {DiagFix, Sentinel} : ReasoningReturns(reasoning)
    \/ ReasoningFails
    \/ FixReturns(RawMarked)
    \/ FixFails
    \/ Return
    \/ QueryAgain

PairSpec == Init /\ [][PairNext]_vars

(***************************************************************************)
(* Two invocations of query() on one system, interleaved at the capability *)
(* calls.  The invocation that runs holds its locals in the variables of   *)
(* query(); the one that waits holds them in `other`.  max_retry is the    *)
(* only field of the system query() reads.                                 *)
(***************************************************************************)
\* The arguments and local variables of the invocation that runs.
Locals ==
    [query |-> query, database_info |-> database_info, pc |-> pc,
     response |-> response, retry_count |-> retry_count, sql |-> sql, df |-> df,
     error_msg |-> error_msg, return_dict |-> return_dict, calls |-> calls]

\* Two invocations are started, each with its own question.
ConcInit ==
    /\ max_retry \in 0..MaxRetryBound
    /\ query \in Queries
    /\ database_info = SchemaText
    /\ pc = "generate"
    /\ response = None
    /\ retry_count = 0
    /\ sql = None
    /\ df = EmptyDF
    /\ error_msg = None
    /\ return_dict = [response |-> <<>>, sql |-> <<>>, error_reason |-> <<>>, df |-> <<>>]
    /\ calls = <<>>
    /\ last = None
    /\ first = <<>>
    /\ raw_text = <<>>
    /\ outputs = <<>>
    /\ \E q \in Queries \ {query} :
          other = << [query |-> q, database_info |-> SchemaText, pc |-> "generate",
                      response |-> None, retry_count |-> 0, sql |-> None,
                      df |-> EmptyDF, error_msg |-> None,
                      return_dict |-> [response |-> <<>>, sql |-> <<>>,
                                       error_reason |-> <<>>, df |-> <<>>],
                      calls |-> <<>>] >>
    /\ construction = NotConstructed
    /\ connector = FreshConnector
    /\ session_state = InitialSessionState
    /\ handled = <<>>

\* Variant in which the retry counter is kept on the system, not in the
\* invocation.
SwitchSharedCounter ==
    /\ other # <<>>
    /\ other[1].pc # "returned"
    /\ other' = <<Locals>>
    /\ query' = other[1].query
    /\ database_info' = other[1].database_info
    /\ pc' = other[1].pc
    /\ response' = other[1].response
    /\ sql' = other[1].sql
    /\ df' = other[1].df
    /\ error_msg' = other[1].error_msg
    /\ return_dict' = other[1].return_dict
    /\ calls' = other[1].calls
    /\ UNCHANGED <<retry_count, max_retry, last, first, raw_text, outputs,
                   construction, connector, session_state, handled>>

\* Between two capability calls the invocation that waits goes on: every
\* local of query() (lines 156-163, 171, 178, 185, 209) belongs to its own
\* invocation.
Switch ==
    /\ other # <<>>
    /\ other[1].pc # "returned"
    /\ other' = <<Locals>>
    /\ query' = other[1].query
    /\ database_info' = other[1].database_info
    /\ pc' = other[1].pc
    /\ response' = other[1].response
    /\ retry_count' = other[1].retry_count
    /\ sql' = other[1].sql
    /\ df' = other[1].df
    /\ error_msg' = other[1].error_msg
    /\ return_dict' = other[1].return_dict
    /\ calls' = other[1].calls
    /\ UNCHANGED <<max_retry, last, first, raw_text, outputs,
                   construction, connector, session_state, handled>>

ConcNext ==
    \/ SqlAgentReturns(RawPlain)
    \/ SqlAgentFails
    \/ \E d \in DataFrames : ExecuteReturns(d)
    \/ ExecuteRaises(ErrShort)
    \/ \E reasoning \in {DiagFix, Sentinel} : ReasoningReturns(reasoning)
    \/ ReasoningFails
    \/ FixReturns(RawMarked)
    \/ FixFails
    \/ Return
    \/ Switch

ConcSpec == ConcInit /\ [][ConcNext]_vars

(***************************************************************************)
(* Text2SQLSystem.__init__                                                 *)
(***************************************************************************)
\* An API key, as the api_key argument and as the value of OPENAI_API_KEY.
KeyArgument == <<"s","k","-","a","r","g">>

KeyEnvironment == <<"s","k","-","e","n","v">>

\* The api_key argument: None (the default), the empty string, a key.
ApiKeys == {None, <<>>, KeyArgument}

\* OPENAI_API_KEY: unset (os.getenv gives None), empty, a key.
EnvironValues == {None, <<>>, KeyEnvironment}

\* The two exceptions __init__ lets out.
ValueError == <<"ValueError">>

LMError == <<"Exception">>

\* dspy.LM(model, api_key = key, ...).
LM(model, key) == <<model, key>>

\* __init__ is called with an api_key, in an environment, with a max_retry.
ConstructInit ==
    /\ max_retry \in 0..MaxRetryBound
    /\ query = None
    /\ database_info = None
    /\ pc = "idle"
    /\ response = None
    /\ retry_count = 0
    /\ sql = None
    /\ df = EmptyDF
    /\ error_msg = None
    /\ return_dict = [response |-> <<>>, sql |-> <<>>, error_reason |-> <<>>, df |-> <<>>]
    /\ calls = <<>>
    /\ last = None
    /\ first = <<>>
    /\ raw_text = <<>>
    /\ outputs = <<>>
    /\ other = <<>>
    /\ \E a \in ApiKeys, v \in EnvironValues :
          construction = [NotConstructed EXCEPT !.api_key = a, !.environ = v]
    /\ connector = FreshConnector
    /\ session_state = InitialSessionState
    /\ handled = <<>>

\* What no step of __init__ touches.
unconstructed ==
    <<max_retry, query, database_info, pc, response, retry_count, sql, df,
      error_msg, return_dict, calls, last, first, raw_text, outputs, other,
      connector, session_state, handled>>

\* Variant of line 74 that refuses an unset variable only, not an empty one.
HandleApiKeyUnsetOnly ==
    LET key == IF construction.api_key = None
               THEN construction.environ
               ELSE construction.api_key
    IN  /\ construction.pc = "not_called"
        /\ construction' =
              IF construction.api_key = None /\ key = None
              THEN [construction EXCEPT !.pc = "raised", !.raised = ValueError]
              ELSE [construction EXCEPT !.pc = "sql_lm", !.key = key]
        /\ UNCHANGED unconstructed

\* Lines 67-79: the key is taken from the argument or from the environment;
\* `not api_key` holds for None and for the empty string.
HandleApiKey ==
    LET key == IF construction.api_key = None
               THEN construction.environ
               ELSE construction.api_key
    IN  /\ construction.pc = "not_called"
        /\ construction' =
              IF construction.api_key = None /\ (key = None \/ key = <<>>)
              THEN [construction EXCEPT !.pc = "raised", !.raised = ValueError]
              ELSE [construction EXCEPT !.pc = "sql_lm", !.key = key]
        /\ UNCHANGED unconstructed

\* Lines 83-107: the three models, one after the other.
ConfigureLM ==
    /\ construction.pc \in {"sql_lm", "reasoning_lm", "fix_lm"}
    /\ construction' =
          CASE construction.pc = "sql_lm" ->
                  [construction EXCEPT !.sql_lm = LM("sql_model", construction.key),
                                       !.pc = "reasoning_lm"]
            [] construction.pc = "reasoning_lm" ->
                  [construction EXCEPT !.reasoning_lm = LM("error_reasoning_model", construction.key),
                                       !.pc = "fix_lm"]
            [] OTHER ->
                  [construction EXCEPT !.fix_lm = LM("error_fix_model", construction.key),
                                       !.pc = "agents"]
    /\ UNCHANGED unconstructed

\* Lines 109-112: dspy.LM raises; the handler raises it again.
ConfigureLMFails ==
    /\ construction.pc \in {"sql_lm", "reasoning_lm", "fix_lm"}
    /\ construction' = [construction EXCEPT !.pc = "raised", !.raised = LMError]
    /\ UNCHANGED unconstructed

\* Lines 115-124: the three agents; __init__ returns.
InitializeAgents ==
    /\ construction.pc = "agents"
    /\ construction' = [construction EXCEPT !.agents = TRUE, !.pc = "constructed"]
    /\ UNCHANGED unconstructed

ConstructNext == HandleApiKey \/ ConfigureLM \/ ConfigureLMFails \/ InitializeAgents

ConstructSpec == ConstructInit /\ [][ConstructNext]_vars

(***************************************************************************)
(* One UI session of web_ui.py: the handlers main() offers, run one at a   *)
(* time; process_user_query runs query(), one capability call per step.    *)
(***************************************************************************)
\* Questions asked in one session between two resets of the chat.
MaxQuestions == 2

\* max_retry of every Text2SQLSystem the UI constructs.
UiMaxRetry == 3

\* error_reason[-1][:200].
ReasonLimit == 200

\* What db_connector and text2sql_system hold.
DatabaseConnectorObject == <<"DatabaseConnector">>

DuckDBConnection == <<"DuckDBPyConnection">>

SystemObject == <<"Text2SQLSystem">>

AttributeError == <<"AttributeError">>

\* connection_info as connect_to_database and use_sample_database set it.
ConnectorInfo ==
    { <<"title", "My Mysql DB">>, <<"db_type", "mysql">>, <<"host", "localhost">>,
      <<"port", "3306">>, <<"database", "sales">> }

SampleInfo ==
    { <<"title", "Sample Timber Sales DB">>, <<"db_type", "duckdb">>,
      <<"host", "localhost">>, <<"port", "memory">>, <<"database", "sample">> }

\* get_database_schema_info().
SampleSchemaText == <<"s","a","l","e","s","p","e","r","s","o","n","(","i","d",")">>

CouldNotMsg ==
    <<"I"," ","c","o","u","l","d","n","'","t"," ","g">>
        \o <<"e","n","e","r","a","t","e"," ","a"," ","w","o">>
        \o <<"r","k","i","n","g"," ","S","Q","L"," ","q","u">>
        \o <<"e","r","y"," ","f","o","r"," ","y","o","u","r">>
        \o <<" ","q","u","e","s","t","i","o","n",".">>

LastErrorMsg ==
    <<" ","L","a","s","t"," ","e","r","r","o","r",":">>
        \o <<" ">>

ProcessingErrorMsg ==
    <<"E","r","r","o","r"," ","p","r","o","c","e","s">>
        \o <<"s","i","n","g"," ","q","u","e","r","y",":"," ">>

InitializeErrorMsg ==
    <<"F","a","i","l","e","d"," ","t","o"," ","i","n">>
        \o <<"i","t","i","a","l","i","z","e"," ","A","I"," ">>
        \o <<"s","y","s","t","e","m",":"," ">>

NoGeneratedSqlMsg ==
    <<"'","N","o","n","e","T","y","p","e","'"," ","o">>
        \o <<"b","j","e","c","t"," ","h","a","s"," ","n","o">>
        \o <<" ","a","t","t","r","i","b","u","t","e"," ","'">>
        \o <<"s","p","l","i","t","'">>

NoKeyMsg ==
    <<"O","p","e","n","A","I"," ","A","P","I"," ","k">>
        \o <<"e","y"," ","i","s"," ","r","e","q","u","i","r">>
        \o <<"e","d",".">>

Message(type, content) == [type |-> type, content |-> content]

\* Lines 388-424: the reply to a run of query() that returned result.
Reply(result) ==
    LET found == get_last_successful_result(result)
    IN  IF found[1] # None /\ found[1] # <<>> /\ found[2] # None
        THEN Message("bot_success",
                     [sql |-> found[1], dataframe |-> found[2],
                      error_corrections |-> result.error_reason,
                      attempts |-> Len(result.sql)])
        ELSE Message("bot_error",
                     IF result.error_reason # <<>>
                     THEN LET reason == result.error_reason[Len(result.error_reason)]
                          IN  CouldNotMsg \o LastErrorMsg
                                \o SubSeq(reason, 1, IF Len(reason) < ReasonLimit
                                                     THEN Len(reason) ELSE ReasonLimit)
                                \o <<".",".",".">>
                     ELSE CouldNotMsg)

\* A handler in the history: how it ended and the system it found.
Handled(handler, raised) ==
    <<[handler |-> handler, raised |-> raised,
       system |-> session_state.text2sql_system]>>

\* A new session; every system of the UI has max_retry = 3.
UiInit ==
    /\ max_retry = UiMaxRetry
    /\ query = None
    /\ database_info = None
    /\ pc = "idle"
    /\ response = None
    /\ retry_count = 0
    /\ sql = None
    /\ df = EmptyDF
    /\ error_msg = None
    /\ return_dict = [response |-> <<>>, sql |-> <<>>, error_reason |-> <<>>, df |-> <<>>]
    /\ calls = <<>>
    /\ last = None
    /\ first = <<>>
    /\ raw_text = <<>>
    /\ outputs = <<>>
    /\ other = <<>>
    /\ construction = NotConstructed
    /\ connector = FreshConnector
    /\ session_state = InitialSessionState
    /\ handled = <<>>

\* What the handlers of the connection leave alone.
unconnected ==
    <<max_retry, query, database_info, pc, response, retry_count, sql, df,
      error_msg, return_dict, calls, last, first, raw_text, outputs, other,
      construction, connector>>

\* Lines 168-210: connector.connect() returns success; the system is
\* constructed if there is none, which succeeds (built) or raises. Every
\* exception is caught at line 209.
connect_to_database(success, built) ==
    /\ pc = "idle"
    /\ ~session_state.is_connected
    /\ session_state' =
          IF success
          THEN [session_state EXCEPT
                    !.db_connector = DatabaseConnectorObject,
                    !.is_connected = TRUE,
                    !.connection_info = ConnectorInfo,
                    !.schema_info = SchemaText,
                    !.text2sql_system = IF @ = None /\ built THEN SystemObject ELSE @]
          ELSE session_state
    /\ handled' = Handled("connect_to_database", None)
    /\ UNCHANGED unconnected

\* Lines 259-297: create_sample_sales_database() returns (created) or
\* raises; then as connect_to_database.
use_sample_database(created, built) ==
    /\ pc = "idle"
    /\ ~session_state.is_connected
    /\ session_state' =
          IF created
          THEN [session_state EXCEPT
                    !.db_connector = DuckDBConnection,
                    !.is_connected = TRUE,
                    !.connection_info = SampleInfo,
                    !.schema_info = SampleSchemaText,
                    !.text2sql_system = IF @ = None /\ built THEN SystemObject ELSE @]
          ELSE session_state
    /\ handled' = Handled("use_sample_database", None)
    /\ UNCHANGED unconnected

\* Lines 236-248, offered at lines 214 and 226 while connected. A DuckDB
\* connection has no method disconnect: line 239 raises AttributeError and
\* the handler is left before line 241.
disconnect_from_database ==
    /\ pc = "idle"
    /\ session_state.is_connected
    /\ session_state.db_connector # None
    /\ IF session_state.db_connector = DuckDBConnection
       THEN /\ handled' = Handled("disconnect_from_database", AttributeError)
            /\ UNCHANGED session_state
       ELSE /\ handled' = Handled("disconnect_from_database", None)
            /\ session_state' =
                  [session_state EXCEPT
                        !.db_connector = None,
                        !.is_connected = FALSE,
                        !.connection_info = {},
                        !.schema_info = <<>>,
                        !.chat_history = <<>>]
    /\ UNCHANGED unconnected

\* Lines 488-496: Clear Chat.
clear_chat ==
    /\ pc = "idle"
    /\ session_state.chat_history # <<>>
    /\ session_state' = [session_state EXCEPT !.chat_history = <<>>]
    /\ handled' = Handled("show_chat_controls", None)
    /\ UNCHANGED unconnected

\* Variant of lines 380-386 that returns without a reply when the system
\* cannot be constructed.
process_user_query_silent(q, built) ==
    LET asked == Append(session_state.chat_history, Message("user", q))
        missing == session_state.text2sql_system = None
    IN  /\ pc = "idle"
        /\ session_state.is_connected
        /\ Len(session_state.chat_history) < 2 * MaxQuestions
        /\ handled' = Handled("process_user_query", None)
        /\ response' = None
        /\ retry_count' = 0
        /\ sql' = None
        /\ df' = EmptyDF
        /\ error_msg' = None
        /\ return_dict' = [response |-> <<>>, sql |-> <<>>, error_reason |-> <<>>, df |-> <<>>]
        /\ calls' = <<>>
        /\ last' = None
        /\ IF missing /\ ~built
           THEN /\ session_state' = [session_state EXCEPT !.chat_history = asked]
                /\ UNCHANGED <<pc, query, database_info>>
           ELSE /\ session_state' =
                      [session_state EXCEPT !.chat_history = asked,
                                            !.text2sql_system = SystemObject]
                /\ pc' = "generate"
                /\ query' = q
                /\ database_info' = session_state.schema_info
        /\ UNCHANGED <<max_retry, first, raw_text, outputs, other, construction, connector>>

\* Lines 361-392, called at line 355 while connected: the user message is
\* appended; the system is constructed if there is none, and a failure is
\* answered with an 'error' message; else query() is called with the
\* session's schema and connector.
process_user_query(q, built) ==
    LET asked == Append(session_state.chat_history, Message("user", q))
        missing == session_state.text2sql_system = None
    IN  /\ pc = "idle"
        /\ session_state.is_connected
        /\ Len(session_state.chat_history) < 2 * MaxQuestions
        /\ handled' = Handled("process_user_query", None)
        /\ response' = None
        /\ retry_count' = 0
        /\ sql' = None
        /\ df' = EmptyDF
        /\ error_msg' = None
        /\ return_dict' = [response |-> <<>>, sql |-> <<>>, error_reason |-> <<>>, df |-> <<>>]
        /\ calls' = <<>>
        /\ last' = None
        /\ IF missing /\ ~built
           THEN /\ session_state' =
                      [session_state EXCEPT !.chat_history =
                            Append(asked, Message("error", InitializeErrorMsg \o NoKeyMsg))]
                /\ UNCHANGED <<pc, query, database_info>>
           ELSE /\ session_state' =
                      [session_state EXCEPT !.chat_history = asked,
                                            !.text2sql_system = SystemObject]
                /\ pc' = "generate"
                /\ query' = q
                /\ database_info' = session_state.schema_info
        /\ UNCHANGED <<max_retry, first, raw_text, outputs, other, construction, connector>>

\* Lines 395-424: query() has returned; the reply is appended.
process_user_query_replies ==
    /\ pc = "returned"
    /\ last' = get_last_successful_result(return_dict)
    /\ session_state' =
          [session_state EXCEPT !.chat_history = Append(@, Reply(return_dict))]
    /\ pc' = "idle"
    /\ UNCHANGED <<max_retry, query, database_info, response, retry_count, sql, df,
                   error_msg, return_dict, calls, first, raw_text, outputs, other,
                   construction, connector, handled>>

\* Lines 185, 426-431: an exception leaves query(): line 185 stands outside
\* the try block and raises on a response whose generated_sql is no text.
\* The handler of line 426 answers with an 'error' message.
process_user_query_catches ==
    /\ pc = "loop"
    /\ LoopCondition
    /\ calls' = Append(calls, Call("clean_llm_response", <<None>>, TRUE, NoGeneratedSqlMsg))
    /\ session_state' =
          [session_state EXCEPT !.chat_history =
                Append(@, Message("error", ProcessingErrorMsg \o NoGeneratedSqlMsg))]
    /\ pc' = "idle"
    /\ UNCHANGED <<max_retry, query, database_info, response, retry_count, sql, df,
                   error_msg, return_dict, last, first, raw_text, outputs, other,
                   construction, connector, handled>>

UiNext ==
    \/ \E success, built \in BOOLEAN : connect_to_database(success, built)
    \/ \E created, built \in BOOLEAN : use_sample_database(created, built)
    \/ disconnect_from_database
    \/ clear_chat
    \/ \E q \in Queries, built \in BOOLEAN : process_user_query(q, built)
    \/ SqlAgentReturns(RawPlain)
    \/ SqlAgentFails
    \/ \E d \in DataFrames : ExecuteReturns(d)
    \/ ExecuteRaises(ErrShort)
    \/ \E reasoning \in {DiagFix, Sentinel} : ReasoningReturns(reasoning)
    \/ ReasoningFails
    \/ FixReturns(RawMarked)
    \/ FixFails
    \/ Return
    \/ process_user_query_replies
    \/ process_user_query_catches

UiSpec == UiInit /\ [][UiNext]_vars

(***************************************************************************)
(* DatabaseConnector: connect, disconnect and execute_query on one         *)
(* connector, in any order.                                                *)
(***************************************************************************)
\* The keys of SUPPORTED_DATABASES.
SUPPORTED_DATABASES == {"mysql", "postgresql", "mssql"}

\* The db_type arguments: the supported ones and one that is not.
DbTypes == SUPPORTED_DATABASES \cup {"sqlite"}

Hosts == {"db1", "db2"}

\* create_engine(conn_str): the engine of a connection string.
Engine(db_type, host) == <<"Engine", db_type, host>>

\* A call of a method of the connector in the history.
ConnectorCall(method, args, raised, result) ==
    <<[handler |-> method, args |-> args, raised |-> raised, result |-> result]>>

ConnectorInit ==
    /\ max_retry = 0
    /\ query = None
    /\ database_info = None
    /\ pc = "idle"
    /\ response = None
    /\ retry_count = 0
    /\ sql = None
    /\ df = EmptyDF
    /\ error_msg = None
    /\ return_dict = [response |-> <<>>, sql |-> <<>>, error_reason |-> <<>>, df |-> <<>>]
    /\ calls = <<>>
    /\ last = None
    /\ first = <<>>
    /\ raw_text = <<>>
    /\ outputs = <<>>
    /\ other = <<>>
    /\ construction = NotConstructed
    /\ connector = FreshConnector
    /\ session_state = InitialSessionState
    /\ handled = <<>>

\* What the methods of the connector leave alone.
unhandled ==
    <<max_retry, query, database_info, pc, response, retry_count, sql, df,
      error_msg, return_dict, calls, last, first, raw_text, outputs, other,
      construction, session_state>>

\* Variant of connect without the handler of lines 168-171: the exception
\* leaves connect().
connect_unhandled(db_type, host, engine_made, reachable) ==
    /\ pc = "idle"
    /\ IF db_type \notin SUPPORTED_DATABASES \/ ~engine_made
       THEN /\ UNCHANGED connector
            /\ handled' = ConnectorCall("connect", <<db_type, host>>, ValueError, None)
       ELSE IF ~reachable
       THEN /\ connector' = [connector EXCEPT !.engine = Engine(db_type, host)]
            /\ handled' = ConnectorCall("connect", <<db_type, host>>, LMError, None)
       ELSE /\ connector' = [engine |-> Engine(db_type, host),
                             connection_info |-> {<<"db_type", db_type>>, <<"host", host>>},
                             is_connected |-> TRUE]
            /\ handled' = ConnectorCall("connect", <<db_type, host>>, None, <<TRUE>>)
    /\ UNCHANGED unhandled

\* Lines 139-171.  create_connection_string raises for an unsupported
\* db_type (lines 64-65) and create_engine may raise (engine_made false):
\* the engine is not assigned.  The test of the connection may raise (not
\* reachable): the new engine stays assigned.  Every exception ends in the
\* handler: is_connected = False, return False.
connect(db_type, host, engine_made, reachable) ==
    /\ pc = "idle"
    /\ IF db_type \notin SUPPORTED_DATABASES \/ ~engine_made
       THEN /\ connector' = [connector EXCEPT !.is_connected = FALSE]
            /\ handled' = ConnectorCall("connect", <<db_type, host>>, None, <<FALSE>>)
       ELSE IF ~reachable
       THEN /\ connector' = [connector EXCEPT !.engine = Engine(db_type, host),
                                              !.is_connected = FALSE]
            /\ handled' = ConnectorCall("connect", <<db_type, host>>, None, <<FALSE>>)
       ELSE /\ connector' = [engine |-> Engine(db_type, host),
                             connection_info |-> {<<"db_type", db_type>>, <<"host", host>>},
                             is_connected |-> TRUE]
            /\ handled' = ConnectorCall("connect", <<db_type, host>>, None, <<TRUE>>)
    /\ UNCHANGED unhandled

\* Lines 173-180.
disconnect ==
    /\ pc = "idle"
    /\ connector' = [engine |-> None, connection_info |-> {}, is_connected |-> FALSE]
    /\ handled' = ConnectorCall("disconnect", <<>>, None, None)
    /\ UNCHANGED unhandled

\* Lines 182-201: raises when not connected; else the result of the query,
\* or the error of the database, raised again.
execute_query(text, d, fails) ==
    /\ pc = "idle"
    /\ handled' =
          IF ~connector.is_connected \/ fails
          THEN ConnectorCall("execute_query", <<text>>, LMError, None)
          ELSE ConnectorCall("execute_query", <<text>>, None, d)
    /\ UNCHANGED connector
    /\ UNCHANGED unhandled

ConnectorNext ==
    \/ \E db_type \in DbTypes, host \in Hosts, engine_made, reachable \in BOOLEAN :
          connect(db_type, host, engine_made, reachable)
    \/ disconnect
    \/ \E d \in DataFrames, fails \in BOOLEAN : execute_query(Cleaned[RawPlain], d, fails)

ConnectorSpec == ConnectorInit /\ [][ConnectorNext]_vars

(***************************************************************************)
(* clean_llm_response applied to raw texts.  The sanitizer is a static     *)
(* method: it is applied to a text drawn from a bounded set, and then to   *)
(* its own output, while no query() runs.                                  *)
(***************************************************************************)
\* Longest raw text, counted in pieces.
MaxPieces == 4

\* What raw texts are made of: the tag in two spellings, whitespace, a
\* plain character, the fence and two of the markers.
Pieces ==
    { SqlTag, <<"S","Q","L">>, <<" ">>, <<"\n">>, <<"x">>, Fence, <<"#">>,
      <<"C","o","m","p","l","e","t","e","d",":">> }

\* The texts of at most n pieces.
RECURSIVE TextsOf(_)
TextsOf(n) ==
    IF n = 0
    THEN {<<>>}
    ELSE LET shorter == TextsOf(n - 1)
         IN  shorter \cup {t \o p : t \in shorter, p \in Pieces}

\* Longer responses of the kind the LLM returns.
TextFencedProse ==
    <<"p","r","o","s","e"," ">> \o Fence
        \o <<"s","q","l"," ","S","E","L","E","C","T"," ","1">> \o Fence
        \o <<" ","p","r","o","s","e">>

TextMarkers ==
    <<"S","E","L","E","C","T"," ","2"," ","#","#","#"," ","C","o","m","p","l","e","t","e","d",":"," ","x"," ","#"," ","y">>

TextEnd == <<"S","E","L","E","C","T"," ","3","\n","#","#","#"," ","E","n","d">>

TextHashCompleted == <<"S","E","L","E","C","T"," ","4"," ","#"," ","C","o","m","p","l","e","t","e","d">>

TextIdentifier ==
    <<"S","E","L","E","C","T"," ","m","y","s","q","l","_","i","d"," ","F","R","O","M"," ","t">>

TextFencedIdentifier ==
    Fence \o <<"s","q","l","\n","S","E","L","E","C","T"," ","s","q","l","_","m","o","d","e","\n">> \o Fence

TextUpperTag == Fence \o <<"S","Q","L","\n","S","E","L","E","C","T"," ","1","\n">> \o Fence

TextTabbed == <<"\t","S","E","L","E","C","T","\t","\n"," ","1"," ","\n">>

TextBlank == <<" ","\t","\n"," ">>

Examples ==
    { TextFencedProse, TextMarkers, TextEnd, TextHashCompleted, TextIdentifier,
      TextFencedIdentifier, TextUpperTag, TextTabbed, TextBlank,
      RawFenced, RawPlain, RawMarked }

RawTexts == TextsOf(MaxPieces) \cup Examples

\* No query() is running; a raw text is about to be cleaned.
CleanInit ==
    /\ max_retry = 0
    /\ query = None
    /\ database_info = None
    /\ pc = "idle"
    /\ response = None
    /\ retry_count = 0
    /\ sql = None
    /\ df = EmptyDF
    /\ error_msg = None
    /\ return_dict = [response |-> <<>>, sql |-> <<>>, error_reason |-> <<>>, df |-> <<>>]
    /\ calls = <<>>
    /\ last = None
    /\ first = <<>>
    /\ raw_text \in RawTexts
    /\ other = <<>>
    /\ construction = NotConstructed
    /\ connector = FreshConnector
    /\ session_state = InitialSessionState
    /\ handled = <<>>
    /\ outputs = <<>>

\* clean_llm_response(raw_text).
CleanResponse ==
    /\ pc = "idle"
    /\ Len(outputs) = 0
    /\ outputs' = <<clean_llm_response(raw_text)>>
    /\ UNCHANGED <<max_retry, query, database_info, pc, response, retry_count,
                   sql, df, error_msg, return_dict, calls, last, first, raw_text,
                   beyond>>

\* clean_llm_response applied to what it returned.
CleanAgain ==
    /\ pc = "idle"
    /\ Len(outputs) = 1
    /\ outputs' = Append(outputs, clean_llm_response(outputs[1]))
    /\ UNCHANGED <<max_retry, query, database_info, pc, response, retry_count,
                   sql, df, error_msg, return_dict, calls, last, first, raw_text,
                   beyond>>

CleanNext == CleanResponse \/ CleanAgain

CleanSpec == CleanInit /\ [][CleanNext]_vars

(***************************************************************************)
(* C11. The returned trace determines how the run ended: two runs that end *)
(* differently (success, budget exhausted, out of scope, capability        *)
(* failure) return different traces.  The code returns the same trace when *)
(* the diagnoser says NOT ASKING FOR SQL and when the diagnoser call       *)
(* fails: this statement is violated.                                      *)
(***************************************************************************)
C11_TraceDeterminesOutcome ==
    (first # <<>> /\ pc = "returned")
        => (first[1].outcome # Outcome => first[1].trace # return_dict)

(***************************************************************************)
(* C1. When generation succeeds, every execution fails, every diagnosis    *)
(* returns a text without the sentinel and every fix returns, the returned *)
(* trace holds max_retry + 1 executions and max_retry diagnoses.           *)
(* The code makes max_retry executions: this statement is violated.        *)
(***************************************************************************)
C1_ExhaustionCounts ==
    ( /\ Returned
      /\ GenerationSucceeded
      /\ \A i \in Executions : Failed(i)
      /\ \A i \in Diagnoses : ~calls[i].raised /\ ~SaidOutOfScope(i)
      /\ \A i \in Fixes : ~calls[i].raised )
    => /\ Len(return_dict.sql) = max_retry + 1
       /\ Cardinality(Executions) = max_retry + 1
       /\ Len(return_dict.error_reason) = max_retry

(***************************************************************************)
(* C2. The loop halts on the first success: at most one execution returns  *)
(* rows, it is the last attempt recorded, and no capability call follows   *)
(* it.                                                                     *)
(***************************************************************************)
C2_HaltsOnFirstSuccess ==
    LET wins == {i \in Executions : Succeeded(i)}
        rows == {k \in 1..Len(return_dict.df) : Len(return_dict.df[k]) > 0}
    IN  /\ Cardinality(wins) <= 1
        /\ Cardinality(rows) <= 1
        /\ \A k \in rows : k = Len(return_dict.df)
        /\ \A i \in wins :
            /\ i = Len(calls)
            /\ Len(return_dict.sql) = Cardinality(Executions)
            /\ return_dict.sql[Len(return_dict.sql)] = calls[i].args[1]
            /\ return_dict.df[Len(return_dict.df)] = calls[i].value
            /\ pc \in {"loop", "returned", "inspected"}
            /\ ~LoopCondition

\* A run that succeeded at its second attempt has returned.
C2_Witness ==
    /\ pc = "returned"
    /\ Cardinality(Executions) = 2
    /\ Succeeded(Len(calls))

(***************************************************************************)
(* C3. Once an attempt is recorded, the diagnoses recorded are at most the *)
(* attempts minus one.  The code diagnoses its last attempt too: this      *)
(* statement is violated.                                                  *)
(***************************************************************************)
C3_DiagnosesBelowAttempts ==
    Len(return_dict.sql) >= 1
        => Len(return_dict.error_reason) <= Len(return_dict.sql) - 1

(***************************************************************************)
(* C4. When the last attempt the budget permits fails, the run ends        *)
(* without a further diagnoser or fixer call, so that no fixer output is   *)
(* left unexecuted.  The code diagnoses and fixes after its last attempt:  *)
(* this statement is violated.                                             *)
(***************************************************************************)
C4_NoCallAfterLastAttempt ==
    ( /\ Returned
      /\ Executions # {}
      /\ Cardinality(Executions) >= max_retry
      /\ \A i \in Executions : Failed(i) )
    => calls[Len(calls)].cap = "execute_query"

(***************************************************************************)
(* C5. A diagnosis whose text holds the literal NOT ASKING FOR SQL ends    *)
(* the run at once: the text is not recorded, the fixer is not called,     *)
(* nothing is appended to the responses and nothing more is executed.      *)
(***************************************************************************)
C5_SentinelTerminates ==
    \A i \in Diagnoses :
        SaidOutOfScope(i) =>
            /\ i = Len(calls)
            /\ pc \in {"loop", "returned", "inspected"}
            /\ ~LoopCondition
            /\ \A k \in 1..Len(return_dict.error_reason) :
                    ~Contains(Sentinel, return_dict.error_reason[k])
            /\ Len(return_dict.error_reason) = Cardinality(Diagnoses) - 1
            /\ Len(return_dict.response) = 1 + Cardinality(Fixes)
            /\ Cardinality(Fixes) = Cardinality(Diagnoses) - 1
            /\ Len(return_dict.sql) = Cardinality(Executions)
            /\ Cardinality(Executions) = Cardinality(Diagnoses)

\* The sentinel arrived inside a longer text at the first attempt of a run
\* that could have retried, and the run has returned.
C5_Witness ==
    /\ pc = "returned"
    /\ max_retry >= 2
    /\ Len(calls) = 3
    /\ SaidOutOfScope(3)
    /\ calls[3].value # Sentinel

(***************************************************************************)
(* C6. A failed generation call is not retried: query() returns at once    *)
(* with the four lists of the trace empty, and no executor, diagnoser or   *)
(* fixer call is made.                                                     *)
(***************************************************************************)
C6_GenerationFailureReturnsEmpty ==
    (calls # <<>> /\ calls[1].raised) =>
        /\ Len(calls) = 1
        /\ calls[1].cap = "sql_agent"
        /\ Returned
        /\ AllListsEmpty

C6_Witness ==
    /\ pc = "returned"
    /\ Len(calls) = 1
    /\ calls[1].cap = "sql_agent"
    /\ calls[1].raised

(***************************************************************************)
(* C7. An execution that returns an empty result is never a success: the   *)
(* loop goes on to the diagnoser, called with the attempt's SQL and the    *)
(* truncated error text, exactly as after an execution that raised.        *)
(***************************************************************************)
C7_EmptyResultIsFailure ==
    \A i \in Executions :
        Failed(i) =>
            LET text == IF calls[i].raised THEN calls[i].value ELSE EmptyResultMsg
            IN  IF i = Len(calls)
                THEN /\ pc = "diagnose"
                     /\ error_msg = text
                     /\ sql = calls[i].args[1]
                ELSE /\ calls[i + 1].cap = "error_reasoning_agent"
                     /\ calls[i + 1].args[1] = FirstChars(text)
                     /\ calls[i + 1].args[2] = calls[i].args[1]

\* An empty result was diagnosed and the run went on to another attempt.
C7_Witness ==
    \E i \in Executions :
        /\ ~calls[i].raised
        /\ calls[i].value = EmptyDF
        /\ i + 1 \in Diagnoses
        /\ \E j \in Executions : j > i

(***************************************************************************)
(* C8. get_last_successful_result returns the SQL and the result of the    *)
(* successful attempt when the run has one, and (None, None) when it has   *)
(* none.  The code returns the last SQL with an empty result of a failed   *)
(* run: this statement is violated.                                        *)
(***************************************************************************)
C8_LastSuccessfulResult ==
    pc = "inspected" =>
        IF \E i \in Executions : Succeeded(i)
        THEN \E i \in Executions :
                /\ Succeeded(i)
                /\ last = <<calls[i].args[1], calls[i].value>>
        ELSE last = <<None, None>>

(***************************************************************************)
(* C9. Whatever the executor does at each attempt and whatever the budget, *)
(* no exception leaves query(): until it has returned its trace, query()   *)
(* has a next step.                                                        *)
(***************************************************************************)
C9_NoExceptionEscapes ==
    /\ pc \in {"generate", "loop", "diagnose", "fix", "returned", "inspected"}
    /\ ~Returned => ENABLED Next

\* Every attempt of the budget raised, and query() returned its trace.
C9_Witness ==
    /\ pc = "returned"
    /\ max_retry = 2
    /\ Cardinality(Executions) = 2
    /\ \A i \in Executions : calls[i].raised
    /\ Len(return_dict.sql) = 2

(***************************************************************************)
(* C10. When every capability call returns or fails, query() returns; each *)
(* loop iteration ends with a larger retry counter than it began with.     *)
(***************************************************************************)
C10_Terminates ==
    /\ <>Returned
    /\ [][ /\ (pc' = "loop" /\ pc # "generate") => retry_count' > retry_count
           /\ pc' \in {"diagnose", "fix"} => retry_count' = retry_count ]_vars

\* The loop ran out by counting: both attempts failed and were repaired.
C10_Witness ==
    /\ pc = "returned"
    /\ max_retry = 2
    /\ retry_count = 2
    /\ Cardinality(Fixes) = 2

(***************************************************************************)
(* C12. For every max_retry, 0 included: when generation succeeds and the  *)
(* executor returns rows, the run ends in success with one attempt, one    *)
(* result and no diagnosis.  With max_retry = 0 the code executes nothing: *)
(* this statement is violated.                                             *)
(***************************************************************************)
C12_FirstAttemptSucceeds ==
    ( /\ Returned
      /\ GenerationSucceeded
      /\ \A i \in Executions : Succeeded(i) )
    => /\ Len(return_dict.sql) = 1
       /\ Len(return_dict.df) = 1
       /\ Len(return_dict.df[1]) > 0
       /\ return_dict.error_reason = <<>>

(***************************************************************************)
(* C13. In every state the attempts recorded in 'sql', which are the       *)
(* executor calls made, are at most max_retry + 1.                         *)
(***************************************************************************)
C13_AttemptsBounded ==
    /\ Len(return_dict.sql) = Cardinality(Executions)
    /\ Len(return_dict.sql) <= max_retry + 1

\* A run used every attempt its loop allows.
C13_Witness ==
    /\ pc = "returned"
    /\ max_retry = 2
    /\ Len(return_dict.sql) = 2
    /\ Cardinality(Executions) = 2

\* The last call of history h is a diagnoser or fixer call that failed.
ReasoningBroke(h) ==
    /\ h # <<>>
    /\ h[Len(h)].raised
    /\ h[Len(h)].cap \in {"error_reasoning_agent", "error_fix_agent"}

(***************************************************************************)
(* C14. A diagnoser or fixer call that fails is not retried: it is the     *)
(* last capability call of the run, the loop is over, and the trace is     *)
(* returned as it was when the call was made.                              *)
(***************************************************************************)
C14_ReasoningFailureEndsRun ==
    /\ [](\A i \in Diagnoses \cup Fixes :
            calls[i].raised =>
                /\ i = Len(calls)
                /\ ~LoopCondition
                /\ pc \in {"loop", "returned", "inspected"})
    /\ [][ReasoningBroke(calls') => return_dict' = return_dict]_vars

\* The fixer failed at the first attempt of a run that could have retried.
C14_Witness ==
    /\ pc = "returned"
    /\ max_retry = 2
    /\ Len(calls) = 4
    /\ calls[4].cap = "error_fix_agent"
    /\ calls[4].raised
    /\ Len(return_dict.error_reason) = 1

(***************************************************************************)
(* C15. The trace is append-only: in every step each of its four lists is  *)
(* unchanged or has one element appended at its end.                       *)
(***************************************************************************)
C15_TraceAppendOnly ==
    [][\A f \in {"response", "sql", "error_reason", "df"} :
            \/ return_dict'[f] = return_dict[f]
            \/ /\ Len(return_dict'[f]) = Len(return_dict[f]) + 1
               /\ SubSeq(return_dict'[f], 1, Len(return_dict[f])) = return_dict[f]]_vars

\* Every list of the trace has grown, 'sql' and 'response' twice.
C15_Witness ==
    /\ Len(return_dict.response) >= 2
    /\ Len(return_dict.sql) >= 2
    /\ Len(return_dict.error_reason) >= 1
    /\ Len(return_dict.df) >= 1


(***************************************************************************)
(* Claims about clean_llm_response, checked under CleanSpec.               *)
(***************************************************************************)
\* The text holds none of the completion markers.
NoMarker(t) ==
    \A k \in 1..Len(completion_markers) : ~Contains(completion_markers[k], t)

\* C16: sanitizer idempotence: for every text without a fence and without a
\* completion marker, cleaning the cleaned text gives the cleaned text again.
C16_Idempotent ==
    (Len(outputs) = 2 /\ ~Contains(Fence, raw_text) /\ NoMarker(raw_text))
        => outputs[2] = outputs[1]

\* C17: for every text without a fence and without a completion marker the
\* sanitizer returns the text with its whitespace runs collapsed to single
\* spaces and its ends trimmed, no other character added or removed.
C17_OnlyWhitespaceCollapsed ==
    (Len(outputs) >= 1 /\ ~Contains(Fence, raw_text) /\ NoMarker(raw_text))
        => outputs[1] = CollapseWhitespace(raw_text)

\* What follows the first fence of t.
AfterFirstFence(t) == SubSeq(t, Find(Fence, t) + Len(Fence), Len(t))

\* t holds at least two fences.
HasFencedBlock(t) == Contains(Fence, t) /\ Contains(Fence, AfterFirstFence(t))

\* The content between the first pair of fences of t.
Between(t) ==
    SubSeq(AfterFirstFence(t), 1, Find(Fence, AfterFirstFence(t)) - 1)

\* What the later steps make of an extracted content.
AfterExtraction(content) ==
    CollapseWhitespace(TruncateFrom(RemoveTag(Strip(content)), 1))

Select1 == <<"S","E","L","E","C","T"," ","1">>

\* C18: fence extraction: with at least two fences the output is derived
\* only from the content between the first pair: it is what the sanitizer
\* returns for that content alone between two fences, whatever prose stands
\* before the first and after the second fence, and
\* 'prose ```sql SELECT 1``` prose' gives exactly 'SELECT 1'; with fewer than
\* two fences the whole text is used.
C18_FenceExtraction ==
    Len(outputs) >= 1 =>
        /\ HasFencedBlock(raw_text) =>
              /\ outputs[1] = clean_llm_response(Fence \o Between(raw_text) \o Fence)
              /\ outputs[1] = AfterExtraction(Replace(Between(raw_text), SqlTag, -1))
        /\ ~HasFencedBlock(raw_text) => outputs[1] = AfterExtraction(raw_text)
        /\ raw_text = TextFencedProse => outputs[1] = Select1

\* C18 witness: the prose around the fenced block of the example is gone.
C18_Witness ==
    /\ Len(outputs) >= 1
    /\ raw_text = TextFencedProse
    /\ HasFencedBlock(raw_text)
    /\ Find(Fence, raw_text) > 1
    /\ outputs[1] = Select1

\* The extracted statement: the content of the first fenced block, or the
\* whole text.
Content(t) == IF HasFencedBlock(t) THEN Between(t) ELSE t

\* c starts with the tag 'sql' in any spelling.
StartsWithTag(c) ==
    /\ Len(c) >= Len(SqlTag)
    /\ c[1] \in {"s", "S"}
    /\ c[2] \in {"q", "Q"}
    /\ c[3] \in {"l", "L"}

\* At most the leading tag removed.
StripLeadingTag(c) ==
    IF StartsWithTag(c) THEN SubSeq(c, Len(SqlTag) + 1, Len(c)) ELSE c

\* C19: tag stripping removes only one token: at most the leading 'sql' of
\* the extracted statement, in any spelling, is removed and every later
\* 'sql' is preserved, for fenced and for unfenced input: the output is what
\* marker truncation and whitespace collapsing make of the statement
\* without its leading tag.
C19_OnlyLeadingTagStripped ==
    Len(outputs) >= 1 =>
        outputs[1] = CollapseWhitespace(
                        TruncateFrom(StripLeadingTag(Strip(Content(raw_text))), 1))

\* The positions at which some completion marker first occurs in c.
MarkerHits(c) ==
    {Find(completion_markers[k], c) : k \in 1..Len(completion_markers)} \ {0}

\* The text that precedes the earliest occurrence of any marker in c.
BeforeMarkers(c) ==
    IF MarkerHits(c) = {}
    THEN c
    ELSE SubSeq(c, 1, (CHOOSE i \in MarkerHits(c) : \A j \in MarkerHits(c) : i <= j) - 1)

\* The markers from the k-th down to the first, tried in the reverse order.
RECURSIVE TruncateReversed(_, _)
TruncateReversed(c, k) ==
    IF k = 0
    THEN c
    ELSE TruncateReversed(TruncateAt(c, completion_markers[k]), k - 1)

Select2 == <<"S","E","L","E","C","T"," ","2">>

\* C20: marker truncation: the output is built only from the text that
\* precedes the earliest occurrence of any completion marker in the
\* extracted content, the reverse order of trying the markers gives the
\* same, and the output holds none of the markers.
C20_MarkerTruncation ==
    Len(outputs) >= 1 =>
        LET content == RemoveTag(ExtractBlock(raw_text))
        IN  /\ outputs[1] = CollapseWhitespace(BeforeMarkers(content))
            /\ outputs[1] = CollapseWhitespace(
                                TruncateReversed(content, Len(completion_markers)))
            /\ NoMarker(outputs[1])

\* C20 witness: a text with several markers, cut at the earliest one.
C20_Witness ==
    /\ Len(outputs) >= 1
    /\ raw_text = TextMarkers
    /\ Cardinality(MarkerHits(raw_text)) >= 2
    /\ outputs[1] = Select2

\* t is in normal form: no whitespace at its ends, no newline, no tab, no
\* two spaces in a row.
NormalForm(t) ==
    /\ t # <<>> => (t[1] \notin Whitespace /\ t[Len(t)] \notin Whitespace)
    /\ \A i \in 1..Len(t) : t[i] \notin {"\n", "\t"}
    /\ \A i \in 1..(Len(t) - 1) : ~(t[i] = " " /\ t[i + 1] = " ")

\* t is empty or holds whitespace only.
Blank(t) == \A i \in 1..Len(t) : t[i] \in Whitespace

\* C21: the sanitizer returns a text for every text, its output is in normal
\* form (no whitespace at the ends, no newline or tab, no two consecutive
\* spaces), and the empty and the whitespace-only text give the empty text.
C21_NormalForm ==
    Len(outputs) >= 1 =>
        /\ outputs[1] \in Seq(STRING)
        /\ NormalForm(outputs[1])
        /\ Blank(raw_text) => outputs[1] = <<>>

\* C21 witness: a text with tabs, newlines and runs of spaces was cleaned.
C21_Witness ==
    /\ Len(outputs) >= 1
    /\ raw_text = TextTabbed
    /\ ~NormalForm(raw_text)
    /\ outputs[1] = Select1


(***************************************************************************)
(* Claims about interleaved invocations, checked under ConcSpec.           *)
(***************************************************************************)
\* query() run alone with max_retry m on question q and schema d, as far as
\* the capability outcomes of the history h carry it: st holds its position,
\* its locals, the number k of the outcome it takes next, and whether every
\* call it made so far is the call h holds.
AloneStep(m, q, d, h, st) ==
    LET o == h[st.k]
        s == Cleaned[st.response]
        exit == [st EXCEPT !.k = @ + 1, !.retry_count = m + 2, !.pc = "loop"]
    IN  CASE st.pc = "generate" ->
                IF o.raised
                THEN [st EXCEPT !.k = @ + 1, !.pc = "returned",
                                !.same = @ /\ o.cap = "sql_agent" /\ o.args = <<q, d>>]
                ELSE [st EXCEPT !.k = @ + 1, !.pc = "loop", !.retry_count = 0,
                                !.response = o.value,
                                !.trace.response = Append(@, [generated_sql |-> o.value]),
                                !.same = @ /\ o.cap = "sql_agent" /\ o.args = <<q, d>>]
          [] st.pc = "loop" ->
                IF o.raised
                THEN [st EXCEPT !.k = @ + 1, !.pc = "diagnose", !.sql = s,
                                !.error_msg = o.value,
                                !.trace.sql = Append(@, s),
                                !.same = @ /\ o.cap = "execute_query" /\ o.args = <<s>>]
                ELSE IF o.value = EmptyDF
                THEN [st EXCEPT !.k = @ + 1, !.pc = "diagnose", !.sql = s,
                                !.error_msg = EmptyResultMsg,
                                !.trace.sql = Append(@, s),
                                !.trace.df = Append(@, o.value),
                                !.same = @ /\ o.cap = "execute_query" /\ o.args = <<s>>]
                ELSE [st EXCEPT !.k = @ + 1, !.pc = "loop", !.sql = s,
                                !.retry_count = m + 2,
                                !.trace.sql = Append(@, s),
                                !.trace.df = Append(@, o.value),
                                !.same = @ /\ o.cap = "execute_query" /\ o.args = <<s>>]
          [] st.pc = "diagnose" ->
                LET same == /\ st.same
                            /\ o.cap = "error_reasoning_agent"
                            /\ o.args[1] = TruncateError(st.error_msg)
                            /\ o.args[2] = st.sql
                IN  IF o.raised \/ Contains(Sentinel, o.value)
                    THEN [exit EXCEPT !.same = same]
                    ELSE [st EXCEPT !.k = @ + 1, !.pc = "fix",
                                    !.trace.error_reason = Append(@, o.value),
                                    !.same = same]
          [] OTHER ->
                LET same == /\ st.same
                            /\ o.cap = "error_fix_agent"
                            /\ o.args = <<st.trace.error_reason[Len(st.trace.error_reason)]>>
                IN  IF o.raised
                    THEN [exit EXCEPT !.same = same]
                    ELSE [st EXCEPT !.k = @ + 1, !.pc = "loop",
                                    !.retry_count = @ + 1,
                                    !.response = o.value,
                                    !.trace.response = Append(@, [generated_sql |-> o.value]),
                                    !.same = same]

RECURSIVE AloneFrom(_, _, _, _, _)
AloneFrom(m, q, d, h, st) ==
    IF st.pc = "returned"
    THEN st
    ELSE IF st.pc = "loop" /\ ~(st.retry_count < m)
    THEN [st EXCEPT !.pc = "returned"]
    ELSE IF st.k > Len(h)
    THEN st
    ELSE AloneFrom(m, q, d, h, AloneStep(m, q, d, h, st))

Alone(m, q, d, h) ==
    AloneFrom(m, q, d, h,
              [pc |-> "generate", k |-> 1, retry_count |-> 0, response |-> None,
               sql |-> None, error_msg |-> None, same |-> TRUE,
               trace |-> [response |-> <<>>, sql |-> <<>>, error_reason |-> <<>>,
                          df |-> <<>>]])

\* The invocation with the locals l does what query() does alone on the
\* capability outcomes it got: the same calls, the same trace, and it has
\* returned only if query() alone has.
AsAlone(l) ==
    LET a == Alone(max_retry, l.query, l.database_info, l.calls)
    IN  /\ a.same
        /\ a.k = Len(l.calls) + 1
        /\ a.trace = l.return_dict
        /\ l.pc = "returned" => a.pc = "returned"

\* C22: invocations are isolated: of two invocations on the same system,
\* interleaved at the capability calls, each makes the calls and returns
\* the trace it makes and returns when it runs alone with the same
\* capability outcomes; no step writes max_retry.
C22_InvocationsIsolated ==
    /\ [](AsAlone(Locals) /\ (other # <<>> => AsAlone(other[1])))
    /\ [][max_retry' = max_retry]_vars

\* C22 witness: both invocations have returned, one of them after a failed
\* attempt that was made while the other one waited between two of its calls.
C22_Witness ==
    /\ other # <<>>
    /\ pc = "returned"
    /\ other[1].pc = "returned"
    /\ Len(return_dict.sql) >= 2
    /\ Len(other[1].return_dict.sql) >= 1
    /\ Len(return_dict.df) # Len(other[1].return_dict.df)


(***************************************************************************)
(* Claims about the construction, checked under ConstructSpec.             *)
(***************************************************************************)
\* No key by either route: api_key is None and OPENAI_API_KEY is unset or
\* empty.
NoCredentials ==
    /\ construction.api_key = None
    /\ construction.environ \in {None, <<>>}

\* A key is supplied by the argument or, without argument, by the environment.
KeySupplied ==
    \/ construction.api_key = KeyArgument
    \/ construction.api_key = None /\ construction.environ = KeyEnvironment

\* C23: constructing with api_key None while OPENAI_API_KEY is unset or empty
\* raises ValueError before any model or agent is configured, so no system
\* is constructed without credentials; when a key is supplied by either
\* route the construction does not raise ValueError.
C23_CredentialsRequired ==
    /\ (NoCredentials /\ construction.pc # "not_called") =>
          /\ construction.pc = "raised"
          /\ construction.raised = ValueError
          /\ construction.sql_lm = None
          /\ construction.reasoning_lm = None
          /\ construction.fix_lm = None
          /\ ~construction.agents
    /\ construction.pc = "constructed" => ~NoCredentials
    /\ KeySupplied => construction.raised # ValueError

\* C23 witness: the variable is set but empty, and the construction raised.
C23_Witness ==
    /\ construction.api_key = None
    /\ construction.environ = <<>>
    /\ construction.pc = "raised"
    /\ construction.raised = ValueError


(***************************************************************************)
(* Claims about what the capabilities are given, checked under Spec.       *)
(***************************************************************************)
\* The calls that returned a raw candidate: generator and fixer.
Candidates ==
    {j \in 1..Len(calls) :
        calls[j].cap \in {"sql_agent", "error_fix_agent"} /\ ~calls[j].raised}

\* The most recent raw candidate before the call i.
LatestCandidate(i) ==
    calls[CHOOSE j \in Candidates : j < i /\ \A k \in Candidates : k < i => k <= j].value

\* The number of the attempt made by the executor call i.
AttemptOf(i) == Cardinality({k \in Executions : k <= i})

\* C24: at every attempt the SQL passed to the executor is
\* clean_llm_response of the most recent raw candidate (the generator's on
\* the first attempt, the latest fixer output later), exactly that string is
\* recorded in 'sql' for the attempt, also when the execution raises, and
\* the number of executor calls equals the length of 'sql'.
C24_ExecutesCleanedCandidate ==
    /\ Cardinality(Executions) = Len(return_dict.sql)
    /\ \A i \in Executions :
          /\ \E j \in Candidates : j < i
          /\ calls[i].args = <<clean_llm_response(LatestCandidate(i))>>
          /\ return_dict.sql[AttemptOf(i)] = calls[i].args[1]

\* C24 witness: the second attempt ran the cleaned output of the fixer, which
\* differs from the raw output, and raised.
C24_Witness ==
    \E i \in Executions :
        /\ AttemptOf(i) = 2
        /\ calls[i].raised
        /\ calls[i - 1].cap = "error_fix_agent"
        /\ LatestCandidate(i) = RawMarked
        /\ return_dict.sql[2] # RawMarked
        /\ return_dict.sql[2] = <<"S","E","L","E","C","T"," ","2">>

\* The error of the failed executor call i: the message it raised, or the
\* message of line 202 for an empty result.
ErrorOf(i) == IF calls[i].raised THEN calls[i].value ELSE EmptyResultMsg

\* C25: every diagnoser call receives the error of the attempt that has
\* just failed, cut to its first 500 characters, the SQL of that same
\* attempt, and a context built from the user query and the schema text;
\* never the error or the SQL of an earlier attempt.
C25_DiagnoserGetsCurrentFailure ==
    \A i \in Diagnoses :
        /\ i > 1
        /\ Failed(i - 1)
        /\ calls[i].args[1] = FirstChars(ErrorOf(i - 1))
        /\ Len(calls[i].args[1]) <= ErrLimit
        /\ calls[i].args[2] = calls[i - 1].args[1]
        /\ calls[i].args[2] = return_dict.sql[AttemptOf(i - 1)]
        /\ Contains(query, calls[i].args[3])
        /\ Contains(database_info, calls[i].args[3])

\* C25 witness: the second attempt failed with a long message and another
\* SQL than the first; the diagnoser got that SQL and 500 characters.
C25_Witness ==
    \E i \in Diagnoses :
        /\ AttemptOf(i - 1) = 2
        /\ calls[i - 1].raised
        /\ Len(calls[i - 1].value) > ErrLimit
        /\ Len(calls[i].args[1]) = ErrLimit
        /\ calls[i].args[2] = return_dict.sql[2]
        /\ return_dict.sql[2] # return_dict.sql[1]
        /\ \E j \in Diagnoses : j < i /\ calls[j].args[1] # calls[i].args[1]


(***************************************************************************)
(* Claims about the UI session, checked under UiSpec.                      *)
(***************************************************************************)
chat_history == session_state.chat_history

LastMessage == chat_history[Len(chat_history)]

\* process_user_query has just ended: its reply is the last message, and the
\* history holds the calls of its run of query().
Answered ==
    /\ pc = "idle"
    /\ handled # <<>>
    /\ handled[1].handler = "process_user_query"
    /\ chat_history # <<>>

\* query() was called and returned its trace.
QueryReturned == calls # <<>> /\ calls[Len(calls)].cap # "clean_llm_response"

\* C26: the UI reports success only for a real answer: process_user_query
\* appends 'bot_success' only when the run ended with a non-empty result,
\* and appends 'bot_error' whenever every attempt of the run raised or
\* returned an empty result set.
C26_SuccessOnlyForRows ==
    Answered =>
        /\ LastMessage.type = "bot_success" =>
              (calls # <<>> /\ Succeeded(Len(calls)))
        /\ (QueryReturned /\ \A i \in Executions : Failed(i)) =>
              LastMessage.type = "bot_error"

\* The messages from the k-th on alternate: a user message, then one reply.
Alternates(k) ==
    \A i \in k..Len(chat_history) :
        IF (i - k) % 2 = 0
        THEN chat_history[i].type = "user"
        ELSE chat_history[i].type \in {"bot_success", "bot_error", "error"}

\* C27: every call of process_user_query appends exactly two messages, the
\* user message and then exactly one reply ('bot_success', 'bot_error' or
\* 'error'), on every path; between resets the history alternates user
\* message and reply.  While the call runs its user message is the last one.
C27_OneReplyPerQuestion ==
    /\ Alternates(1)
    /\ pc = "idle" => Len(chat_history) % 2 = 0
    /\ pc # "idle" => (Len(chat_history) % 2 = 1 /\ LastMessage.content = query)

\* C27 witness: two questions of one session were answered on two different
\* paths: a run that succeeded, and a system that could not be constructed
\* or a query() that raised.
C27_Witness ==
    /\ pc = "idle"
    /\ Len(chat_history) = 4
    /\ chat_history[2].type \in {"bot_success", "bot_error"}
    /\ chat_history[4].type = "error"
    /\ chat_history[1].content # chat_history[3].content


(***************************************************************************)
(* Claims about the DatabaseConnector, checked under ConnectorSpec.        *)
(***************************************************************************)
\* C28: over every sequence of connect(), disconnect() and queries,
\* connect() with an unsupported db_type and connects that fail included:
\* connect() never raises, and whenever is_connected is True the engine is
\* not None and connection_info['db_type'] is mysql, postgresql or mssql.
C28_ConnectedHasEngine ==
    /\ (handled # <<>> /\ handled[1].handler = "connect") =>
          /\ handled[1].raised = None
          /\ handled[1].result \in {<<TRUE>>, <<FALSE>>}
    /\ connector.is_connected =>
          /\ connector.engine # None
          /\ \E item \in connector.connection_info :
                item[1] = "db_type" /\ item[2] \in SUPPORTED_DATABASES

\* C28 witness: a connector that was connected is asked to connect with an
\* unsupported db_type: connect() returned False.
C28_Witness ==
    /\ handled # <<>>
    /\ handled[1].handler = "connect"
    /\ handled[1].args[1] \notin SUPPORTED_DATABASES
    /\ handled[1].result = <<FALSE>>
    /\ connector.connection_info # {}
    /\ ~connector.is_connected

\* C29: a connector that is not connected holds no connection state:
\* whenever is_connected is False, engine is None and connection_info is
\* empty, also after a connect() that returned False.
C29_DisconnectedHoldsNothing ==
    ~connector.is_connected =>
        /\ connector.engine = None
        /\ connector.connection_info = {}


(***************************************************************************)
(* Claims about the connection of the UI session, checked under UiSpec.    *)
(***************************************************************************)
\* C30: over every sequence of connect_to_database, use_sample_database
\* and disconnect_from_database in one session (connects that fail and
\* constructions that raise included): is_connected is True if and only if
\* db_connector is not None, and disconnect_from_database empties
\* connection_info, schema_info and chat_history and leaves text2sql_system
\* unchanged.
C30_SessionConnection ==
    /\ session_state.is_connected <=> session_state.db_connector # None
    /\ (handled # <<>> /\ handled[1].handler = "disconnect_from_database") =>
          /\ session_state.connection_info = {}
          /\ session_state.schema_info = <<>>
          /\ session_state.chat_history = <<>>
          /\ session_state.text2sql_system = handled[1].system

=============================================================================
